---- MODULE Spec2Model ----
(***************************************************************************)
(* Model of the validation engine of input-check:                          *)
(*   src/src/Validator/index.js   validate / validateAll and helpers       *)
(*   src/src/Modes/index.js       the process-wide mode switch             *)
(*   src/src/Validations/index.js the rule predicates                      *)
(* A validation run creates one promise per (field, rule) pair.  The skip  *)
(* decision, the lookup of the predicate and its invocation are            *)
(* synchronous (Validate / ValidateAll); the delivery of a predicate's     *)
(* outcome to the engine is asynchronous (Settle).                         *)
(***************************************************************************)
EXTENDS Integers, Sequences, FiniteSets, TLC

\* ------------------------------------------------------------------ bounds
\* longest rule list of a field in the single-field rule sets
MaxRules == 2
\* cap on the length of Validator.implicitRules (seven seeded names + pushes)
MaxImplicit == 8
\* longest collection a wildcard path is expanded against
MaxItems == 2

\* ------------------------------------------------------------------ values
\* A JavaScript value: t is its kind, s the characters of a string,
\* items the elements (strings) of an array.
VUndef == [t |-> "undefined", s |-> <<>>, items |-> <<>>]
VNull == [t |-> "null", s |-> <<>>, items |-> <<>>]
VStr(chars) == [t |-> "string", s |-> chars, items |-> <<>>]
VArr(elems) == [t |-> "array", s |-> <<>>, items |-> elems]
\* a boolean and a number carry the characters String() gives them; an object
\* carries its keys
VFalse == [t |-> "boolean", s |-> <<"f", "a", "l", "s", "e">>, items |-> <<>>]
VNum(digits) == [t |-> "number", s |-> digits, items |-> <<>>]
VObj(keys) == [t |-> "object", s |-> <<>>, items |-> keys]

Letters == {"a", "b", "x", "n", "u", "l", "d", "e", "f", "i"}
Digits == {"0", "1", "2", "3"}

FieldNames == {"username", "age"}

\* the values a field of the data object takes
Values ==
  {VUndef, VNull, VStr(<<>>), VStr(<<"a", "b">>), VStr(<<"a", "@">>), VArr(<<<<"x">>>>)}

\* ------------------------------------------------------------- rule names
\* lodash words(): the words a rule name is made of
Words(name) ==
  CASE name = "required_if" -> <<"required", "if">>
    [] name = "requiredIf" -> <<"required", "if">>
    [] name = "alpha_numeric" -> <<"alpha", "numeric">>
    [] name = "alphaNumeric" -> <<"alpha", "numeric">>
    [] name = "is_phone" -> <<"is", "phone">>
    [] name = "isPhone" -> <<"is", "phone">>
    [] name = "required-if" -> <<"required", "if">>
    [] name = "alpha-numeric" -> <<"alpha", "numeric">>
    [] name = "is-phone" -> <<"is", "phone">>
    [] OTHER -> <<name>>

\* lodash upperFirst() of a word
Capitalize(word) ==
  CASE word = "if" -> "If"
    [] word = "numeric" -> "Numeric"
    [] word = "phone" -> "Phone"
    [] OTHER -> word

RECURSIVE JoinSnake(_)
JoinSnake(ws) ==
  IF Len(ws) = 1 THEN ws[1] ELSE ws[1] \o "_" \o JoinSnake(Tail(ws))

RECURSIVE JoinCapitalized(_)
JoinCapitalized(ws) ==
  IF ws = <<>> THEN "" ELSE Capitalize(ws[1]) \o JoinCapitalized(Tail(ws))

\* _.snakeCase
snakeCase(name) == JoinSnake(Words(name))

\* _.camelCase
camelCase(name) == Words(name)[1] \o JoinCapitalized(Tail(Words(name)))


\* ------------------------------------------------------------- field paths
\* the field paths with a wildcard segment, split at the segment
WildcardFields == {"email.*", "person.*.firstname"}

WildcardParts(field) ==
  CASE field = "email.*" -> [prefix |-> "email", suffix |-> ""]
    [] field = "person.*.firstname" -> [prefix |-> "person", suffix |-> ".firstname"]

\* the concrete path of element `index` of the collection of a wildcard path
Concrete(field, index) ==
  WildcardParts(field).prefix \o "." \o ToString(index) \o WildcardParts(field).suffix

\* String() of an object
ObjectChars == <<"[object Object]">>

\* the data {email: [...]} as a map from the paths that resolve in it
EmailData(items) ==
  [path \in {"email"} \cup {Concrete("email.*", k) : k \in 0..(Len(items) - 1)} |->
     IF path = "email" THEN VArr(items)
     ELSE VStr(items[1 + CHOOSE k \in 0..(Len(items) - 1) : path = Concrete("email.*", k)])]

\* the data {person: [{firstname: ...}, ...]} as a map from the paths that
\* resolve in it
PersonData(names) ==
  [path \in {"person"} \cup {Concrete("person.*.firstname", k) : k \in 0..(Len(names) - 1)} |->
     IF path = "person" THEN VArr([k \in 1..Len(names) |-> ObjectChars])
     ELSE names[1 + CHOOSE k \in 0..(Len(names) - 1) :
                      path = Concrete("person.*.firstname", k)]]

\* Parser.transformRules: a field path with a wildcard becomes one entry per
\* element of the collection at its prefix, in index order (none if the
\* collection is absent or empty); any other path is its own concrete path
Expand(d, rule) ==
  IF rule.field \notin WildcardFields THEN <<rule>>
  ELSE LET prefix == WildcardParts(rule.field).prefix
           count == IF prefix \in DOMAIN d /\ d[prefix].t = "array"
                    THEN Len(d[prefix].items) ELSE 0
       IN [k \in 1..count |->
             [field |-> Concrete(rule.field, k - 1), validations |-> rule.validations]]

RECURSIVE transformRules(_, _)
transformRules(d, rs) ==
  IF rs = <<>> THEN <<>> ELSE Expand(d, rs[1]) \o transformRules(d, Tail(rs))

\* ---------------------------------------------------------------- Raw (is)
\* the raw predicates of the module, by name
RawBuiltIn == {"empty", "array", "alpha", "alphaNumeric"}

\* a raw predicate handed to is.extend()
CustomRawMethods == {"customRaw"}

\* String(value): the characters of the value's string representation
RECURSIVE JoinItems(_)
JoinItems(elems) ==
  IF elems = <<>> THEN <<>>
  ELSE IF Len(elems) = 1 THEN elems[1]
  ELSE elems[1] \o <<",">> \o JoinItems(Tail(elems))

String(value) ==
  CASE value.t = "undefined" -> <<"u", "n", "d", "e", "f", "i", "n", "e", "d">>
    [] value.t = "null" -> <<"n", "u", "l", "l">>
    [] value.t = "string" -> value.s
    [] value.t = "array" -> JoinItems(value.items)
    [] value.t \in {"boolean", "number"} -> value.s
    [] value.t = "object" -> ObjectChars

\* Raw.empty: undefined, null, '' and empty collections are empty
Raw_empty(value) ==
  \/ value.t \in {"undefined", "null"}
  \/ value.t = "string" /\ Len(value.s) = 0
  \/ value.t \in {"array", "object"} /\ Len(value.items) = 0

\* Raw.array
Raw_array(value) == value.t = "array"

\* Raw.alpha: letters only
Raw_alpha(value) ==
  /\ Len(String(value)) > 0
  /\ \A k \in 1..Len(String(value)) : String(value)[k] \in Letters

\* Raw.alphaNumeric: letters and digits only
Raw_alphaNumeric(value) ==
  /\ Len(String(value)) > 0
  /\ \A k \in 1..Len(String(value)) : String(value)[k] \in Letters \cup Digits

\* Raw.numeric: a number, or a string of digits
Raw_numeric(value) ==
  \/ value.t = "number"
  \/ (value.t = "string" /\ Len(value.s) > 0
      /\ \A k \in 1..Len(value.s) : value.s[k] \in Digits)

\* Raw.same
Raw_same(a, b) == a = b /\ a.t \notin {"array", "object"}

\* Raw.between
Raw_between(size, min, max) == min < size /\ size < max

\* ------------------------------------------------------------------ numbers
\* what Number() gives for a value that is not a number
NaN == -1

DigitValue(c) ==
  CASE c = "0" -> 0 [] c = "1" -> 1 [] c = "2" -> 2 [] c = "3" -> 3

\* Number(string): the decimal value of a string of digits, 0 for the empty
\* string, NaN for any other string
RECURSIVE Decimal(_)
Decimal(chars) ==
  IF chars = <<>> THEN 0
  ELSE 10 * Decimal(SubSeq(chars, 1, Len(chars) - 1)) + DigitValue(chars[Len(chars)])

Number(chars) ==
  IF \A k \in 1..Len(chars) : chars[k] \in Digits THEN Decimal(chars) ELSE NaN

\* a >= b and a <= b of JavaScript: false when either side is NaN
Geq(a, b) == a # NaN /\ b # NaN /\ a >= b
Leq(a, b) == a # NaN /\ b # NaN /\ a <= b

\* !value
Falsy(value) ==
  \/ value.t \in {"undefined", "null"}
  \/ (value.t = "string" /\ Len(value.s) = 0)
  \/ value = VFalse
  \/ (value.t = "number" /\ Number(value.s) = 0)

\* ------------------------------------------------------------- Validations
\* _.get(data, field); a missing path gives undefined
Get(data, field) == IF field \in DOMAIN data THEN data[field] ELSE VUndef

\* Validations: hasRule(validations, rules)
hasRule(validations, ruleNames) ==
  \E k \in 1..Len(validations) : validations[k].name \in ruleNames

\* Validations: skippable(value, nullable), reading Modes.get()
skippable(mode, value, nullable) ==
  IF mode = "strict" THEN value.t = "undefined"
  ELSE IF value.t = "string" THEN Len(value.s) = 0
  ELSE value.t = "undefined" \/ (value.t = "null" /\ nullable)

\* the outcome of a predicate that starts with the common skippable() test
Guarded(mode, data, field, validations, ok) ==
  IF skippable(mode, Get(data, field), hasRule(validations, {"nullable"}))
  THEN "validation skipped"
  ELSE IF ok THEN "validation passed" ELSE "rejected"

\* required passing the values that are truthy
requiredTruthy(data, field) ==
  IF Get(data, field).t \in {"array", "object"}
       \/ (Get(data, field).t = "string" /\ Len(Get(data, field).s) > 0)
  THEN "validation passed" ELSE "rejected"

\* Validations.required
required(data, field) ==
  IF ~Raw_empty(Get(data, field)) THEN "validation passed" ELSE "rejected"

\* Validations.requiredIf; skippable() is called without its second argument
requiredIf(mode, data, field, args) ==
  IF skippable(mode, IF args = <<>> THEN VUndef ELSE Get(data, args[1]), FALSE)
  THEN "validation skipped"
  ELSE IF ~Raw_empty(Get(data, field)) THEN "validation passed" ELSE "rejected"

\* Validations.alpha
alpha(mode, data, field, validations) ==
  Guarded(mode, data, field, validations,
          Raw_alpha(Get(data, field)) /\ Get(data, field).t # "null")

\* Validations.alphaNumeric
alphaNumeric(mode, data, field, validations) ==
  Guarded(mode, data, field, validations,
          Raw_alphaNumeric(Get(data, field)) /\ Get(data, field).t # "null")

\* Validations.array
array(mode, data, field, validations) ==
  Guarded(mode, data, field, validations, Raw_array(Get(data, field)))

\* Validations.nullable
nullable == "validation skipped"

\* Validations: numericRules
numericRules == {"numeric", "integer"}

\* getSize taking the numeric value whenever the rule list has a numeric rule
getSizeByRuleOnly(value, hasNumericRule) ==
  IF hasNumericRule THEN Number(String(value))
  ELSE IF value.t = "array" THEN Len(value.items)
  ELSE Len(String(value))

\* Validations: getSize(fieldValue, hasNumericRule), for no file rule
getSize(value, hasNumericRule) ==
  IF Raw_numeric(value) /\ hasNumericRule THEN Number(value.s)
  ELSE IF value.t = "array" THEN Len(value.items)
  ELSE Len(String(value))

\* args[k] of a rule, undefined (as the empty string here) when there is none
Arg(args, k) == IF k <= Len(args) THEN args[k] ELSE <<>>

\* Validations.min
min(mode, data, field, args, validations) ==
  Guarded(mode, data, field, validations,
          Geq(getSize(Get(data, field), hasRule(validations, numericRules)),
              IF args = <<>> THEN NaN ELSE Number(args[1])))

\* Validations.max
max(mode, data, field, args, validations) ==
  Guarded(mode, data, field, validations,
          Leq(getSize(Get(data, field), hasRule(validations, numericRules)),
              IF args = <<>> THEN NaN ELSE Number(args[1])))

\* !min || !max of Validations.range: a bound is missing or the empty string
MissingBounds(args) == Arg(args, 1) = <<>> \/ Arg(args, 2) = <<>>

\* Validations.range, and Validations.between = Validations.range
range(mode, data, field, args, validations) ==
  IF MissingBounds(args) THEN "rejected"
  ELSE Guarded(mode, data, field, validations,
               Raw_between(getSize(Get(data, field), hasRule(validations, numericRules)),
                           Number(args[1]), Number(args[2])))

\* Validations.same
same(mode, data, field, args, validations) ==
  IF Falsy(IF args = <<>> THEN VUndef ELSE Get(data, args[1])) THEN "validation skipped"
  ELSE Guarded(mode, data, field, validations,
               Get(data, args[1]) = Get(data, field)
                 /\ Get(data, field).t \notin {"array", "object"})

\* Validations.different
different(mode, data, field, args, validations) ==
  IF Falsy(IF args = <<>> THEN VUndef ELSE Get(data, args[1])) THEN "validation skipped"
  ELSE Guarded(mode, data, field, validations,
               ~(Get(data, args[1]) = Get(data, field)
                   /\ Get(data, field).t \notin {"array", "object"}))

\* confirmed skipping when the confirmation field is absent
confirmedSkipsAbsent(mode, data, field, validations) ==
  IF Get(data, field \o "_confirmation").t = "undefined" THEN "validation skipped"
  ELSE Guarded(mode, data, field, validations,
               Raw_same(Get(data, field), Get(data, field \o "_confirmation")))

\* Validations.confirmed
confirmed(mode, data, field, validations) ==
  Guarded(mode, data, field, validations,
          Raw_same(Get(data, field), Get(data, field \o "_confirmation")))

\* the predicates Validations holds when the module is loaded
BuiltIn ==
  {"required", "requiredIf", "alpha", "alphaNumeric", "array", "nullable",
   "min", "max", "range", "between", "same", "different", "confirmed"}

\* the predicates handed to extend(); both settle whenever they like:
\*   customReject  rejects with the message it is given, whatever the field holds
\*   customThrow   raises an exception inside its promise (an async function
\*                 that throws), whatever the field holds
CustomMethods == {"customReject", "customThrow"}

\* the exception customThrow raises
Fault == "TypeError: predicate fault"

\* what the promise returned by a predicate settles to
Invoke(method, mode, data, field, args, validations) ==
  CASE method = "required" -> required(data, field)
    [] method = "requiredIf" -> requiredIf(mode, data, field, args)
    [] method = "alpha" -> alpha(mode, data, field, validations)
    [] method = "alphaNumeric" -> alphaNumeric(mode, data, field, validations)
    [] method = "array" -> array(mode, data, field, validations)
    [] method = "nullable" -> nullable
    [] method = "min" -> min(mode, data, field, args, validations)
    [] method = "max" -> max(mode, data, field, args, validations)
    [] method \in {"range", "between"} -> range(mode, data, field, args, validations)
    [] method = "same" -> same(mode, data, field, args, validations)
    [] method = "different" -> different(mode, data, field, args, validations)
    [] method = "confirmed" -> confirmed(mode, data, field, validations)
    [] method = "customReject" -> "rejected"
    [] method = "customThrow" -> "rejected"

\* the fixed text range rejects with when a bound is missing
RangeBoundsRequired == "min and max values are required for range validation"

\* what the promise of the predicate rejects with: the message it was given,
\* or the exception it raised, or the fixed text of range
Reason(method, args, message) ==
  IF method = "customThrow" THEN Fault
  ELSE IF method \in {"range", "between"} /\ MissingBounds(args) THEN RangeBoundsRequired
  ELSE message


\* ------------------------------------------------------------------- state
VARIABLES
  currentMode,        \* Modes: let currentMode
  implicitRules,      \* Validator.implicitRules (an array)
  Validations,        \* the rule registry: lookup key -> predicate
  validationMessages, \* Messages: default message of a rule
  is,                 \* Validator.is, the raw predicates: name -> predicate
  exception,          \* what the last configuration call threw ("" if nothing)
  runAll,             \* the run in flight: validateAll (TRUE) or validate
  data,               \* the contents of the caller's data object
  passedData,         \* the contents of that object when the call was made
  rules,              \* the transformed rules of the run, in declaration order
  messages,           \* the custom messages of the run
  checks,             \* checks[i][j]: the promise of rule j of field i
  result,             \* the promise returned by validate / validateAll
  call,               \* the latest direct call of a predicate of Validations
  outcome             \* what the promise of that call settled to

vars == <<currentMode, implicitRules, Validations, validationMessages, is, exception,
          runAll, data, passedData, rules, messages, checks, result, call, outcome>>

direct == <<call, outcome>>

config == <<currentMode, implicitRules, Validations, validationMessages, is>>
run == <<runAll, data, passedData, rules, messages, checks>>

\* Modes: availableModes
availableModes == {"normal", "strict"}

\* Validator.implicitRules as the module is loaded
SeededImplicitRules ==
  <<"required", "required_if", "required_when", "required_with_any",
    "required_with_all", "required_without_any", "required_without_all">>

Range(seq) == {seq[k] : k \in 1..Len(seq)}

\* --------------------------------------------------------------- Validator
\* Validator.getRule
Validator_getRule(validations, ruleNames) ==
  SelectSeq(validations, LAMBDA validation : validation.name \in ruleNames)

\* Validator.hasRule
Validator_hasRule(validations, ruleNames) ==
  Len(Validator_getRule(validations, ruleNames)) > 0

\* isImplicit that knows the rule `required` only
isImplicitRequiredOnly(implicit, validations) ==
  Validator_hasRule(validations, {"required"})

\* isImplicit looking at the first rule of the list only
isImplicitFirstRule(implicit, validations) ==
  validations # <<>> /\ validations[1].name \in Range(implicit)

\* Validator.isImplicit: does the rule list of the field name an implicit rule
isImplicit(implicit, validations) ==
  Validator_hasRule(validations, Range(implicit))

\* typeof of an identifier that is declared nowhere in scope
typeofUndeclared == "undefined"

\* Validator.skippable that takes null as skippable without `nullable`
Validator_skippableAnyNull(mode, d, field, validations) ==
  IF mode = "strict" THEN typeofUndeclared = "undefined"
  ELSE IF Get(d, field).t = "string" THEN Len(Get(d, field).s) = 0
  ELSE Get(d, field).t \in {"undefined", "null"}

\* Validator.skippable; in strict mode it tests `typeof value`, and no
\* `value` is declared in that function
Validator_skippable(mode, d, field, validations) ==
  IF mode = "strict" THEN typeofUndeclared = "undefined"
  ELSE IF Get(d, field).t = "string" THEN Len(Get(d, field).s) = 0
  ELSE \/ Get(d, field).t = "undefined"
       \/ (Get(d, field).t = "null" /\ Validator_hasRule(validations, {"nullable"}))

\* Validator.isValidatable
isValidatable(mode, implicit, d, field, validations) ==
  isImplicit(implicit, validations) \/ ~Validator_skippable(mode, d, field, validations)

\* no custom messages: messages || {}
NoMessages == << >>

\* a message cut at its {{field}} placeholder
TemplateParts(message) ==
  CASE message = "{{field}} is not a valid email" -> <<"{{field}}", " is not a valid email">>
    [] OTHER -> <<message>>

\* the message with its placeholder replaced by the field
RECURSIVE JoinParts(_, _)
JoinParts(parts, field) ==
  IF parts = <<>> THEN ""
  ELSE (IF parts[1] = "{{field}}" THEN field ELSE parts[1]) \o JoinParts(Tail(parts), field)

\* a custom message given as a function, and the text the function returns
MessageCallback == "function () { return 'Phone number is required for validations' }"
CallbackReturn == "Phone number is required for validations"

\* the text of an entry: what the function returns, or the string with its
\* placeholder replaced
Render(message, field) ==
  IF message = MessageCallback THEN CallbackReturn
  ELSE JoinParts(TemplateParts(message), field)

\* the path a custom message of a field is keyed by: the wildcard path a
\* concrete indexed path was expanded from, or the path itself
WildcardForm(field) ==
  LET from == {w \in WildcardFields : \E k \in 0..MaxItems : field = Concrete(w, k)}
  IN IF from = {} THEN field ELSE CHOOSE w \in from : TRUE

\* Messages.make: the custom message of the field and rule, or the custom
\* message of the rule, or the default of the rule, or the generic text
make(msgs, defaults, field, validation) ==
  LET key == WildcardForm(field) \o "." \o validation
  IN IF key \in DOMAIN msgs THEN Render(msgs[key], field)
     ELSE IF validation \in DOMAIN msgs THEN Render(msgs[validation], field)
     ELSE IF validation \in DOMAIN defaults THEN Render(defaults[validation], field)
     ELSE validation \o " validation failed on " \o field

\* the number of calls of a message function one Messages.make does
makeCalls(msgs, defaults, field, validation) ==
  LET key == WildcardForm(field) \o "." \o validation
      entry == IF key \in DOMAIN msgs THEN msgs[key]
               ELSE IF validation \in DOMAIN msgs THEN msgs[validation]
               ELSE IF validation \in DOMAIN defaults THEN defaults[validation]
               ELSE ""
  IN IF entry = MessageCallback THEN 1 ELSE 0

\* Validator.getValidationMethod: the predicate stored under the camelCase
\* key, or a function that throws
getValidationMethod(registry, validation) ==
  IF camelCase(validation) \in DOMAIN registry
  THEN registry[camelCase(validation)] ELSE "throws"

\* the error a check rejects with: the ValidationError built in the catch of
\* runValidationOnField, or the Error thrown by the function that
\* getValidationMethod returned
ValidationError(field, validation, message) ==
  [type |-> "ValidationError", field |-> field, validation |-> validation,
   message |-> message]

NotDefinedError(validation) ==
  [type |-> "Error", field |-> "", validation |-> "",
   message |-> validation \o " is not defined as a validation"]

\* runValidationOnField without the `return` in front of
\* resolve('validation skipped'): the predicate is invoked all the same
runValidationOnFieldNoReturn(mode, implicit, registry, defaults, msgs, d, field, validation, validations) ==
  LET message == make(msgs, defaults, field, validation.name)
      method == getValidationMethod(registry, validation.name)
      base == [st |-> "pending", invoked |-> TRUE, out |-> "",
               custom |-> method \in CustomMethods,
               called |-> makeCalls(msgs, defaults, field, validation.name),
               error |-> ValidationError(field, validation.name, Reason(method, validation.args, message))]
  IN IF ~isValidatable(mode, implicit, d, field, validations)
     THEN [base EXCEPT !.st = "fulfilled", !.out = "validation skipped"]
     ELSE IF method = "throws"
     THEN [base EXCEPT !.st = "rejected", !.out = "thrown",
                       !.error = NotDefinedError(validation.name)]
     ELSE [base EXCEPT !.out = Invoke(method, mode, d, field, validation.args, validations)]

\* runValidationOnField failing on a rule that is not registered before it
\* looks at whether the check is to be skipped
runValidationOnFieldLookupFirst(mode, implicit, registry, defaults, msgs, d, field, validation, validations) ==
  LET message == make(msgs, defaults, field, validation.name)
      method == getValidationMethod(registry, validation.name)
      base == [st |-> "pending", invoked |-> TRUE, out |-> "",
               custom |-> method \in CustomMethods,
               called |-> makeCalls(msgs, defaults, field, validation.name),
               error |-> ValidationError(field, validation.name, Reason(method, validation.args, message))]
  IN IF method = "throws"
     THEN [base EXCEPT !.st = "rejected", !.out = "thrown",
                       !.invoked = isValidatable(mode, implicit, d, field, validations),
                       !.error = NotDefinedError(validation.name)]
     ELSE IF ~isValidatable(mode, implicit, d, field, validations)
     THEN [base EXCEPT !.st = "fulfilled", !.invoked = FALSE, !.out = "validation skipped"]
     ELSE [base EXCEPT !.out = Invoke(method, mode, d, field, validation.args, validations)]

\* runValidationOnField making the message only when the predicate has
\* rejected: a message function is not called for a check that is skipped or
\* that passes
runValidationOnFieldLazyMessage(mode, implicit, registry, defaults, msgs, d, field, validation, validations) ==
  LET message == make(msgs, defaults, field, validation.name)
      method == getValidationMethod(registry, validation.name)
      base == [st |-> "pending", invoked |-> TRUE, out |-> "",
               custom |-> method \in CustomMethods,
               called |-> 0,
               error |-> ValidationError(field, validation.name, Reason(method, validation.args, message))]
      out == Invoke(method, mode, d, field, validation.args, validations)
  IN IF ~isValidatable(mode, implicit, d, field, validations)
     THEN [base EXCEPT !.st = "fulfilled", !.invoked = FALSE, !.out = "validation skipped"]
     ELSE IF method = "throws"
     THEN [base EXCEPT !.st = "rejected", !.out = "thrown",
                       !.error = NotDefinedError(validation.name)]
     ELSE [base EXCEPT !.out = out,
                       !.called = IF out = "rejected"
                                  THEN makeCalls(msgs, defaults, field, validation.name)
                                  ELSE 0]

\* Validator.runValidationOnField, up to the return of the promise:
\*   st      "fulfilled" | "rejected" | "pending"
\*   invoked the function returned by getValidationMethod was called
\*   out     what the promise of the predicate holds
\*   custom  the predicate was registered through extend
\*   called  how many times a message function was called for the check
runValidationOnField(mode, implicit, registry, defaults, msgs, d, field, validation, validations) ==
  LET message == make(msgs, defaults, field, validation.name)
      method == getValidationMethod(registry, validation.name)
      base == [st |-> "pending", invoked |-> TRUE, out |-> "",
               custom |-> method \in CustomMethods,
               called |-> makeCalls(msgs, defaults, field, validation.name),
               error |-> ValidationError(field, validation.name, Reason(method, validation.args, message))]
  IN IF ~isValidatable(mode, implicit, d, field, validations)
     THEN [base EXCEPT !.st = "fulfilled", !.invoked = FALSE, !.out = "validation skipped"]
     ELSE IF method = "throws"
     THEN [base EXCEPT !.st = "rejected", !.out = "thrown",
                       !.error = NotDefinedError(validation.name)]
     ELSE [base EXCEPT !.out = Invoke(method, mode, d, field, validation.args, validations)]

\* validateField dropping the custom messages of the call
validateFieldNoMessages(mode, implicit, registry, defaults, msgs, d, field, validations) ==
  [j \in 1..Len(validations) |->
     runValidationOnField(mode, implicit, registry, defaults, NoMessages, d, field,
                          validations[j], validations)]

\* validateField going through the rules one after the other and stopping at
\* the first one that fails: the predicates of the later rules are not invoked
validateFieldSequential(mode, implicit, registry, defaults, msgs, d, field, validations) ==
  LET one(j) == runValidationOnField(mode, implicit, registry, defaults, msgs, d, field,
                                     validations[j], validations)
  IN [j \in 1..Len(validations) |->
        IF \E i \in 1..(j - 1) : one(i).out \in {"rejected", "thrown"}
        THEN [one(j) EXCEPT !.st = "fulfilled", !.invoked = FALSE,
                            !.out = "validation skipped"]
        ELSE one(j)]

\* Validator.validateField: one promise per rule of the field
validateField(mode, implicit, registry, defaults, msgs, d, field, validations) ==
  [j \in 1..Len(validations) |->
     runValidationOnField(mode, implicit, registry, defaults, msgs, d, field,
                          validations[j], validations)]

\* _mapValidations handing the first field to every validateField
_mapValidationsFirstField(mode, implicit, registry, defaults, msgs, d, rs) ==
  [i \in 1..Len(rs) |->
     validateField(mode, implicit, registry, defaults, msgs, d, rs[1].field, rs[i].validations)]

\* _mapValidations: one list of promises per field
_mapValidations(mode, implicit, registry, defaults, msgs, d, rs) ==
  [i \in 1..Len(rs) |->
     validateField(mode, implicit, registry, defaults, msgs, d, rs[i].field, rs[i].validations)]

\* _.flatten
RECURSIVE flatten(_)
flatten(lists) == IF lists = <<>> THEN <<>> ELSE lists[1] \o flatten(Tail(lists))

Positions(cs) == UNION {{<<i, j>> : j \in 1..Len(cs[i])} : i \in 1..Len(cs)}

NoPending(cs) == \A p \in Positions(cs) : cs[p[1]][p[2]].st # "pending"

\* _settleAllPromises: the reasons of the rejected promises, in order
_settleAllPromises(cs) ==
  LET rejected == SelectSeq(flatten(cs), LAMBDA c : c.st = "rejected")
  IN [k \in 1..Len(rejected) |-> rejected[k].error]


\* the states of the promise validate / validateAll return
\* errors holds the elements of the array a rejection carries; isArray tells
\* that the rejection value is an array
NoRun == [state |-> "none", value |-> "none", errors |-> <<>>, isArray |-> FALSE]
PendingResult == [state |-> "pending", value |-> "none", errors |-> <<>>, isArray |-> FALSE]

\* reject([error]) of validate, and reject of validateAll with the array
\* _settleAllPromises threw
rejectWith(errors) ==
  [state |-> "rejected", value |-> "none", errors |-> errors, isArray |-> TRUE]

\* resolveWith, resolving with a copy of the data instead
resolveWithClone(dataRef) ==
  [state |-> "resolved", value |-> "clone", errors |-> <<>>, isArray |-> FALSE]

\* resolve(data): the promise resolves with the reference it was given
resolveWith(dataRef) ==
  [state |-> "resolved", value |-> dataRef, errors |-> <<>>, isArray |-> FALSE]

\* p comes before q in declaration order (field, then rule)
Before(p, q) == p[1] < q[1] \/ (p[1] = q[1] /\ p[2] < q[2])

\* FailFast, but a rejection that arrives after the first one is added to
\* the array instead of being dropped
FailFastKeepsAll(prev, cs, arrived) ==
  IF prev.state = "resolved" THEN prev
  ELSE IF arrived # <<>> THEN rejectWith(prev.errors \o arrived)
  ELSE IF prev.state = "pending" /\ \A p \in Positions(cs) : cs[p[1]][p[2]].st = "fulfilled"
  THEN resolveWith("data")
  ELSE prev

\* Validator.validate, the promise chain
\*   Q.all(validations).then(() => resolve(data)).catch((error) => reject([error]))
\* over the Q.all of every field: the first rejection to arrive rejects it,
\* later ones are dropped; it resolves once every promise is fulfilled.
\* `arrived` holds the rejections that arrived in this step, in order.
FailFast(prev, cs, arrived) ==
  IF prev.state # "pending" THEN prev
  ELSE IF arrived # <<>> THEN rejectWith(<<arrived[1]>>)
  ELSE IF \A p \in Positions(cs) : cs[p[1]][p[2]].st = "fulfilled" THEN resolveWith("data")
  ELSE prev

\* CollectAll over Q.all instead of Q.allSettled: the first rejection settles it
CollectAllEager(prev, cs) ==
  IF prev.state # "pending" THEN prev
  ELSE IF Len(_settleAllPromises(cs)) > 0 THEN rejectWith(_settleAllPromises(cs))
  ELSE IF NoPending(cs) THEN resolveWith("data")
  ELSE prev

\* Validator.validateAll, the promise chain
\*   Q.all(validations).then(_settleAllPromises).then(() => resolve(data)).catch(reject)
\* over the Q.allSettled of every field: nothing happens before every
\* promise has settled.
CollectAll(prev, cs) ==
  IF prev.state # "pending" \/ ~NoPending(cs) THEN prev
  ELSE IF Len(_settleAllPromises(cs)) > 0 THEN rejectWith(_settleAllPromises(cs))
  ELSE resolveWith("data")

\* ------------------------------------------------------------------ inputs
\* a parsed rule; the conditional field of requiredIf is `age`
Rule(name) ==
  [name |-> name, args |-> IF name \in {"requiredIf", "required_if"} THEN <<"age">> ELSE <<>>]

\* the rule names of the single-field rule sets
RuleNames ==
  {"required", "requiredIf", "required_if", "alpha", "alphaNumeric", "array",
   "nullable", "phone"}

\* the rule names of the two-field rule sets
PairRuleNames == {"required", "alpha", "phone"}

\* the rule lists of at most n rules over the names, no rule named twice
RuleLists(names, n) ==
  {[k \in 1..Len(l) |-> Rule(l[k])] :
     l \in {m \in UNION {[1..len -> names] : len \in 1..n} :
              \A a, b \in DOMAIN m : a # b => m[a] # m[b]}}

\* the rule names of the longer rule lists
LongRuleNames == {"required", "alpha", "array", "phone"}

\* the rule lists of a single field: one or two rules over every name, and up
\* to MaxRules rules over the names of the longer lists
SingleLists == RuleLists(RuleNames, 2) \cup RuleLists(LongRuleNames, MaxRules)

\* the rule lists that name requiredIf, whose conditional field is `age`
ConditionalLists ==
  {l \in SingleLists :
     \E k \in 1..Len(l) : l[k].name \in {"requiredIf", "required_if"}}

\* rule sets on `username` alone, with every value of it; `age` holds a value
\* only where a rule reads it
SingleInputs ==
  {[data |-> [username |-> u, age |-> VUndef],
    rules |-> <<[field |-> "username", validations |-> l]>>,
    messages |-> NoMessages] :
     u \in Values, l \in SingleLists}
  \cup
  {[data |-> [username |-> u, age |-> VStr(<<"a", "b">>)],
    rules |-> <<[field |-> "username", validations |-> l]>>,
    messages |-> NoMessages] :
     u \in Values, l \in ConditionalLists}

\* rule sets on `username` and `age`, in that order
PairInputs ==
  {[data |-> [username |-> u, age |-> a],
    rules |-> <<[field |-> "username", validations |-> l1],
                [field |-> "age", validations |-> l2]>>,
    messages |-> NoMessages] :
     u \in {VUndef, VStr(<<"a", "b">>), VStr(<<"a", "@">>)},
     a \in {VUndef, VStr(<<"a", "b">>), VStr(<<"a", "@">>)},
     l1 \in RuleLists(PairRuleNames, 2), l2 \in RuleLists(PairRuleNames, 2)}

\* the rule set {} on any data
EmptyInputs ==
  {[data |-> [username |-> u, age |-> VUndef], rules |-> <<>>,
    messages |-> NoMessages] : u \in Values}

\* the sequences of at most n elements of a set
SeqsUpTo(set, n) == UNION {[1..k -> set] : k \in 0..n}

\* custom messages keyed by the wildcard path and the rule
WildcardMessages ==
  {[key \in {"email.*.alpha"} |-> "Email address is not valid"],
   [key \in {"email.*.alpha"} |-> "{{field}} is not a valid email"]}

\* a rule set with a wildcard path on a flat array or on an array of objects
WildcardInputs ==
  {[data |-> EmailData(items),
    rules |-> <<[field |-> "email.*", validations |-> l]>>,
    messages |-> m] :
     items \in SeqsUpTo({<<"a", "b">>, <<"a", "@">>}, MaxItems),
     l \in RuleLists({"alpha", "required"}, 2),
     m \in {NoMessages} \cup WildcardMessages}
  \cup
  {[data |-> PersonData(names),
    rules |-> <<[field |-> "person.*.firstname", validations |-> <<Rule("required")>>]>>,
    messages |-> m] :
     names \in SeqsUpTo({VNull, VStr(<<"a", "b">>)}, MaxItems),
     m \in {NoMessages, [key \in {"person.*.firstname.required"} |-> "Enter the first name"]}}

\* the custom messages of each subset of a set of keys
Tables(entries) ==
  {[key \in keys |-> entries[key]] : keys \in SUBSET DOMAIN entries}

\* custom messages of a field and rule, and of a rule
MessageEntries ==
  [key \in {"username.alpha", "alpha", "username.phone", "phone"} |->
     CASE key = "username.alpha" -> "Letters only in the username"
       [] key = "alpha" -> "Letters only"
       [] key = "username.phone" -> "The username is not a phone number"
       [] key = "phone" -> "Not a phone number"]

\* rule sets on `username` and `age`, both failing alpha, with custom messages
MessageInputs ==
  {[data |-> [username |-> VStr(<<"a", "@">>), age |-> VStr(<<"a", "@">>)],
    rules |-> <<[field |-> "username", validations |-> l1],
                [field |-> "age", validations |-> l2]>>,
    messages |-> m] :
     l1 \in RuleLists({"alpha", "phone"}, 2), l2 \in RuleLists({"alpha", "phone"}, 1),
     m \in Tables(MessageEntries) \ {NoMessages}}

\* custom messages given as a function
CallbackEntries ==
  [key \in {"username.required", "alpha"} |-> MessageCallback]

\* `required` and `alpha` on `username`, absent or made of letters, with
\* message functions
CallbackInputs ==
  {[data |-> [username |-> u, age |-> VUndef],
    rules |-> <<[field |-> "username", validations |-> l]>>,
    messages |-> m] :
     u \in {VUndef, VStr(<<"a", "b">>)},
     l \in RuleLists({"required", "alpha"}, 2),
     m \in Tables(CallbackEntries) \ {NoMessages}}

\* `required` on false, 0, an empty array and an empty object
RequiredInputs ==
  {[data |-> [username |-> u, age |-> VUndef],
    rules |-> <<[field |-> "username", validations |-> <<Rule("required")>>]>>,
    messages |-> NoMessages] :
     u \in {VFalse, VNum(<<"0">>), VArr(<<>>), VObj(<<>>)}}

\* `range` / `between` on `age` with no bound, one bound and both bounds
RangeInputs ==
  {[data |-> [username |-> VUndef, age |-> a],
    rules |-> <<[field |-> "age", validations |-> <<[name |-> m, args |-> b]>>]>>,
    messages |-> NoMessages] :
     a \in {VUndef, VStr(<<>>), VNum(<<"2">>)},
     m \in {"range", "between"},
     b \in {<<>>, <<<<"1">>>>, <<<<"1">>, <<"3">>>>}}

Inputs ==
  RequiredInputs \cup RangeInputs \cup CallbackInputs \cup SingleInputs \cup PairInputs
    \cup EmptyInputs \cup WildcardInputs \cup MessageInputs

EmptyData == [f \in FieldNames |-> VUndef]


\* ------------------------------------------------------------- direct calls
\* no predicate has been called directly
NoCall ==
  [method |-> "", mode |-> "", data |-> << >>, field |-> "", args |-> <<>>,
   validations |-> <<>>]
NoOutcome == [state |-> "none", value |-> ""]

\* the message handed to a predicate that is called directly
DirectMessage == "please confirm password"

Strings == {VStr(<<>>), VStr(<<"a", "b">>), VStr(<<"1", "3">>)}

\* requiredIf(data, 'password_confirm', message, ['password'])
RequiredIfCalls ==
  {[method |-> "requiredIf",
    data |-> [password |-> c, password_confirm |-> v],
    field |-> "password_confirm", args |-> <<"password">>, validations |-> <<>>] :
     c \in {VUndef, VNull} \cup Strings, v \in {VUndef, VNull} \cup Strings}

\* the bounds of min and max
Bounds == {<<"1">>, <<"2">>, <<"3">>, <<"1", "3">>}

\* min / max (data, 'price', message, [bound], validations)
SizeCalls ==
  {[method |-> m, data |-> [price |-> v], field |-> "price", args |-> <<b>>,
    validations |-> l] :
     m \in {"min", "max"}, b \in Bounds,
     v \in {VUndef, VNull, VNum(<<"2">>), VNum(<<"3">>), VNum(<<"1", "3">>),
            VArr(<<<<"x">>>>), VArr(<<<<"x">>, <<"x">>, <<"x">>>>), VArr(<<>>)} \cup Strings,
     l \in {<<>>, <<[name |-> "numeric", args |-> <<>>]>>,
            <<[name |-> "integer", args |-> <<>>]>>,
            <<[name |-> "nullable", args |-> <<>>]>>}}

\* range / between (data, 'price', message, [min, max], validations)
RangeCalls ==
  {[method |-> m, data |-> [price |-> v], field |-> "price", args |-> a,
    validations |-> <<[name |-> "numeric", args |-> <<>>]>>] :
     m \in {"range", "between"},
     a \in {<<>>, <<<<"1">>>>, <<<<>>, <<"3">>>>, <<<<"1">>, <<>>>>, <<<<"1">>, <<"3">>>>},
     v \in {VUndef, VNull, VStr(<<>>), VNum(<<"2">>), VNum(<<"1", "3">>)}}

\* same / different (data, 'password', message, ['other'], validations) and
\* confirmed(data, 'password', message, [], validations)
CounterpartCalls ==
  {[method |-> m,
    data |-> [password |-> v, other |-> c, password_confirmation |-> c],
    field |-> "password",
    args |-> IF m = "confirmed" THEN <<>> ELSE <<"other">>,
    validations |-> <<>>] :
     m \in {"same", "different", "confirmed"},
     v \in {VUndef, VNull} \cup Strings, c \in {VUndef, VNull} \cup Strings}

DirectCalls == RequiredIfCalls \cup SizeCalls \cup RangeCalls \cup CounterpartCalls

\* ----------------------------------------------------------------- actions
Init ==
  /\ currentMode = "normal"
  /\ implicitRules = SeededImplicitRules
  /\ Validations = [name \in BuiltIn |-> name]
  /\ validationMessages = << >>
  /\ is = [name \in RawBuiltIn |-> name]
  /\ exception = ""
  /\ runAll = FALSE
  /\ data = EmptyData
  /\ passedData = EmptyData
  /\ rules = <<>>
  /\ messages = NoMessages
  /\ checks = <<>>
  /\ result = NoRun
  /\ call = NoCall
  /\ outcome = NoOutcome

Idle == result.state = "none"

\* Modes.set doing what its log line says on a mode it does not know:
\* switching back to normal mode
setModeSwitchesBack(mode) ==
  /\ Idle
  /\ currentMode' = IF mode \in availableModes THEN mode ELSE "normal"
  /\ exception' = ""
  /\ UNCHANGED <<implicitRules, Validations, validationMessages, is, run, result, direct>>

\* Modes.set
setMode(mode) ==
  /\ Idle
  /\ currentMode' = IF mode \in availableModes THEN mode ELSE currentMode
  /\ exception' = ""
  /\ UNCHANGED <<implicitRules, Validations, validationMessages, is, run, result, direct>>

\* extend without the Messages.set of the default message
extendNoMessage(name, method, message) ==
  /\ Idle
  /\ IF method \notin CustomMethods
     THEN /\ exception' = "Invalid arguments, extend expects a method to execute"
          /\ UNCHANGED Validations
     ELSE /\ exception' = ""
          /\ Validations' = [key \in DOMAIN Validations \cup {name} |->
                               IF key = name THEN method ELSE Validations[key]]
  /\ UNCHANGED <<currentMode, implicitRules, validationMessages, is, run, result, direct>>

\* extend registering the handler before it looks at its type
extendRegistersFirst(name, method, message) ==
  /\ Idle
  /\ Validations' = [key \in DOMAIN Validations \cup {name} |->
                       IF key = name THEN method ELSE Validations[key]]
  /\ IF method \notin CustomMethods
     THEN /\ exception' = "Invalid arguments, extend expects a method to execute"
          /\ UNCHANGED validationMessages
     ELSE /\ exception' = ""
          /\ validationMessages' =
               [key \in DOMAIN validationMessages \cup {snakeCase(name)} |->
                  IF key = snakeCase(name) THEN message ELSE validationMessages[key]]
  /\ UNCHANGED <<currentMode, implicitRules, is, run, result, direct>>

\* Validator.extend
extend(name, method, message) ==
  /\ Idle
  /\ IF method \notin CustomMethods
     THEN /\ exception' = "Invalid arguments, extend expects a method to execute"
          /\ UNCHANGED <<Validations, validationMessages>>
     ELSE /\ exception' = ""
          /\ Validations' = [key \in DOMAIN Validations \cup {name} |->
                               IF key = name THEN method ELSE Validations[key]]
          /\ validationMessages' =
               [key \in DOMAIN validationMessages \cup {snakeCase(name)} |->
                  IF key = snakeCase(name) THEN message ELSE validationMessages[key]]
  /\ UNCHANGED <<currentMode, implicitRules, is, run, result, direct>>

\* Validator.is.extend
is_extend(name, method) ==
  /\ Idle
  /\ IF method \notin CustomRawMethods
     THEN /\ exception' = "Invalid arguments, is.extends expects 2nd parameter as a function"
          /\ UNCHANGED is
     ELSE /\ exception' = ""
          /\ is' = [key \in DOMAIN is \cup {name} |->
                      IF key = name THEN method ELSE is[key]]
  /\ UNCHANGED <<currentMode, implicitRules, Validations, validationMessages, run, result, direct>>

\* extendImplicit assigning the list instead of pushing onto it
extendImplicitAssigns(name) ==
  /\ Idle
  /\ Len(implicitRules) < MaxImplicit
  /\ implicitRules' = <<snakeCase(name)>>
  /\ exception' = ""
  /\ UNCHANGED <<currentMode, Validations, validationMessages, is, run, result, direct>>

\* Validator.extendImplicit
extendImplicit(name) ==
  /\ Idle
  /\ Len(implicitRules) < MaxImplicit
  /\ implicitRules' = Append(implicitRules, snakeCase(name))
  /\ exception' = ""
  /\ UNCHANGED <<currentMode, Validations, validationMessages, is, run, result, direct>>

\* the synchronous part of validate / validateAll: every check is created,
\* and the skip decision and the invocation of its predicate are made
Start(all, input) ==
  /\ runAll' = all
  /\ data' = input.data
  /\ passedData' = input.data
  /\ rules' = transformRules(input.data, input.rules)
  /\ messages' = input.messages
  /\ checks' = _mapValidations(currentMode, implicitRules, Validations,
                               validationMessages, input.messages, input.data, rules')
  /\ exception' = ""
  /\ UNCHANGED <<config, direct>>

\* Validator.validate
validate ==
  /\ Idle
  /\ \E input \in Inputs :
       /\ Start(FALSE, input)
       /\ result' = FailFast(PendingResult, checks', _settleAllPromises(checks'))

\* Validator.validateAll
validateAll ==
  /\ Idle
  /\ \E input \in Inputs :
       /\ Start(TRUE, input)
       /\ result' = CollectAll(PendingResult, checks')

\* the built-in predicates settle their promise at once, so their outcomes
\* reach the engine in the order the predicates were invoked, fulfilments
\* one tick ahead of rejections (.then(resolve) before .catch); a predicate
\* registered through extend settles whenever it likes
CanSettle(cs, p) ==
  /\ cs[p[1]][p[2]].st = "pending"
  /\ \/ cs[p[1]][p[2]].custom
     \/ \A q \in Positions(cs) :
          (cs[q[1]][q[2]].st = "pending" /\ ~cs[q[1]][q[2]].custom /\ q # p) =>
            \/ cs[q[1]][q[2]].out = "rejected" /\ cs[p[1]][p[2]].out # "rejected"
            \/ /\ (cs[q[1]][q[2]].out = "rejected") = (cs[p[1]][p[2]].out = "rejected")
               /\ Before(p, q)

\* Settle with a retry: a check whose predicate rejected is put back to
\* pending and evaluated again
SettleWithRetry ==
  /\ result.state # "none"
  /\ \E p \in Positions(checks) :
       /\ CanSettle(checks, p) \/ checks[p[1]][p[2]].st = "rejected"
       /\ LET st == IF checks[p[1]][p[2]].st = "rejected" THEN "pending"
                    ELSE IF checks[p[1]][p[2]].out = "rejected" THEN "rejected"
                    ELSE "fulfilled"
          IN /\ checks' = [checks EXCEPT ![p[1]][p[2]].st = st]
             /\ result' = IF runAll THEN CollectAll(result, checks')
                          ELSE FailFast(result, checks',
                                        IF st = "rejected" THEN <<checks[p[1]][p[2]].error>>
                                        ELSE <<>>)
  /\ UNCHANGED <<config, exception, runAll, data, passedData, rules, messages, direct>>

\* the promise of a predicate settles: the .then(resolve) / .catch of
\* runValidationOnField runs, and with it the chain of validate / validateAll
Settle ==
  /\ result.state # "none"
  /\ \E p \in Positions(checks) :
       /\ CanSettle(checks, p)
       /\ LET st == IF checks[p[1]][p[2]].out = "rejected" THEN "rejected" ELSE "fulfilled"
          IN /\ checks' = [checks EXCEPT ![p[1]][p[2]].st = st]
             /\ result' = IF runAll THEN CollectAll(result, checks')
                          ELSE FailFast(result, checks',
                                        IF st = "rejected" THEN <<checks[p[1]][p[2]].error>>
                                        ELSE <<>>)
  /\ UNCHANGED <<config, exception, runAll, data, passedData, rules, messages, direct>>

\* the caller has the outcome and every predicate has settled: the run is over
Return ==
  /\ result.state \in {"resolved", "rejected"}
  /\ NoPending(checks)
  /\ runAll' = FALSE
  /\ data' = EmptyData
  /\ passedData' = EmptyData
  /\ rules' = <<>>
  /\ messages' = NoMessages
  /\ checks' = <<>>
  /\ result' = NoRun
  /\ UNCHANGED <<config, exception, direct>>

Next ==
  \/ \E mode \in {"normal", "strict", "loose"} : setMode(mode)
  \/ \E method \in CustomMethods \cup {"not a function"} :
       extend("phone", method, "Enter valid phone number")
  \/ extendImplicit("phone")
  \/ validate
  \/ validateAll
  \/ Settle
  \/ Return

Spec == Init /\ [][Next]_vars

\* the configuration calls alone, with rule names of every spelling
ExtendNames == {"phone", "isPhone", "is_phone"}
ImplicitNames == {"phone", "isPhone"}
RawNames == {"presence", "array"}

NextConfig ==
  \/ \E mode \in {"normal", "strict", "loose"} : setMode(mode)
  \/ \E name \in ExtendNames, method \in CustomMethods \cup {"not a function"} :
       extend(name, method, "Enter valid phone number")
  \/ \E name \in RawNames, method \in CustomRawMethods \cup {"not a function"} :
       is_extend(name, method)
  \/ \E name \in ImplicitNames : extendImplicit(name)

SpecConfig == Init /\ [][NextConfig]_vars

\* a predicate of Validations is called directly, as the tests call it, and
\* its promise settles
Validations_call ==
  /\ Idle
  /\ \E c \in DirectCalls :
       /\ call' = [method |-> c.method, mode |-> currentMode, data |-> c.data,
                   field |-> c.field, args |-> c.args, validations |-> c.validations]
       /\ LET out == Invoke(c.method, currentMode, c.data, c.field, c.args, c.validations)
          IN outcome' = IF out = "rejected"
                        THEN [state |-> "rejected",
                              value |-> Reason(c.method, c.args, DirectMessage)]
                        ELSE [state |-> "fulfilled", value |-> out]
  /\ UNCHANGED <<config, exception, run, result>>

\* the predicates called directly, in either mode
NextValidations ==
  \/ \E mode \in {"normal", "strict", "loose"} : setMode(mode)
  \/ Validations_call

SpecValidations == Init /\ [][NextValidations]_vars


\* ------------------------------------------------------------------ claims
Chk(p) == checks[p[1]][p[2]]
FieldAt(p) == rules[p[1]].field
ListAt(p) == rules[p[1]].validations
RuleAt(p) == rules[p[1]].validations[p[2]]
Running == result.state # "none"
Settled == result.state \in {"resolved", "rejected"}

\* the checks whose predicate rejects, and the first of them as declared
Failing == {p \in Positions(checks) : Chk(p).out = "rejected"}
Thrown == {p \in Positions(checks) : Chk(p).out = "thrown"}
FirstFailing == CHOOSE p \in Failing : \A q \in Failing : q = p \/ Before(p, q)

\* the ValidationErrors of the failing checks in declaration order
FailingErrors ==
  LET failing == SelectSeq(flatten(checks), LAMBDA c : c.out = "rejected")
  IN [k \in 1..Len(failing) |-> failing[k].error]

\* C1: when no check of a run fails, validate and validateAll resolve, once
\* every check has settled, with the reference of the data object that was
\* passed in, and the contents of that object are what they were at the call.
C1_ResolvesWithOriginalData ==
  /\ data = passedData
  /\ (Running /\ NoPending(checks) /\ Failing = {} /\ Thrown = {}) =>
       (result.state = "resolved" /\ result.value = "data")
  /\ result.state = "resolved" => result.value = "data"

\* C1 witness: a validate run whose predicates ran and passed has resolved.
C1_Witness ==
  /\ ~runAll /\ result.state = "resolved" /\ result.value = "data"
  /\ \E p \in Positions(checks) : Chk(p).out = "validation passed"
  /\ data.username = VStr(<<"a", "b">>)

\* C2 (as claimed): when validate rejects and predicates failed, the error
\* reported is that of the failing check that is first in declaration order,
\* in whatever order the predicates settled.
C2_DeclarationOrderWins ==
  (~runAll /\ result.state = "rejected" /\ Thrown = {}) =>
     result.errors = <<Chk(FirstFailing).error>>

\* C3: when validate rejects because a rule failed, the rejection is an array
\* of exactly one ValidationError {field, validation, message} of a failing
\* check of the run; when the predicates of the run settle in invocation order
\* (none was registered through extend), it is the error of the first failing
\* rule as declared.
C3_OneErrorFirstRule ==
  (~runAll /\ result.state = "rejected" /\ result.errors[1].type = "ValidationError") =>
     /\ Len(result.errors) = 1
     /\ \E p \in Failing :
          /\ Chk(p).st = "rejected"
          /\ result.errors[1] =
               [type |-> "ValidationError", field |-> FieldAt(p),
                validation |-> RuleAt(p).name,
                message |-> Chk(p).error.message]
          /\ Chk(p).error.message \notin {Fault, RangeBoundsRequired} =>
               Chk(p).error.message =
                 make(messages, validationMessages, FieldAt(p), RuleAt(p).name)
     /\ (\A q \in Positions(checks) : ~Chk(q).custom) =>
          result.errors[1] = Chk(FirstFailing).error

\* C3 witness: validate({username: 'a@'}, {username: 'alpha|alphaNumeric'})
\* has rejected with the error of alpha, and alphaNumeric has failed as well.
C3_Witness ==
  /\ ~runAll /\ result.state = "rejected"
  /\ Len(rules) = 1 /\ Len(rules[1].validations) = 2
  /\ rules[1].validations[1].name = "alpha"
  /\ rules[1].validations[2].name = "alphaNumeric"
  /\ data.username = VStr(<<"a", "@">>)
  /\ checks[1][1].st = "rejected" /\ checks[1][2].st = "rejected"
  /\ result.errors = <<ValidationError("username", "alpha",
                                       "alpha validation failed on username")>>

\* C4 (as claimed): when validateAll rejects, the array holds exactly the
\* ValidationErrors of the failing (field, rule) pairs, ordered by field and
\* then by rule, and nothing else.
C4_AllFailuresInOrder ==
  (runAll /\ result.state = "rejected") => result.errors = FailingErrors

\* C5: validateAll does not settle while a check of the run is pending.
C5_SettlesAfterEveryCheck ==
  (runAll /\ Settled) => NoPending(checks)

\* C5 witness: a rule has failed, another check is still pending, and the
\* promise of validateAll is pending.
C5_Witness ==
  /\ runAll /\ result.state = "pending"
  /\ \E p \in Positions(checks) : Chk(p).st = "rejected"
  /\ \E p \in Positions(checks) : Chk(p).st = "pending"


\* the rule list of the field of check p names no implicit rule
NoImplicitRule(p) ==
  \A k \in 1..Len(ListAt(p)) : ListAt(p)[k].name \notin Range(implicitRules)

\* the value of the field of check p is absent, or the empty string, or null
\* with `nullable` in the rule list of the field
NormalSkipCondition(p) ==
  LET value == Get(data, FieldAt(p))
  IN \/ value.t = "undefined"
     \/ value.t = "string" /\ Len(value.s) = 0
     \/ value.t = "null" /\ \E k \in 1..Len(ListAt(p)) : ListAt(p)[k].name = "nullable"

\* C6 (as claimed): in normal mode the check of a rule that is not implicit
\* is skipped (its predicate is not invoked) if and only if the value is
\* absent, the empty string, or null with `nullable` in the rule list.
C6_NormalSkipIff ==
  (Running /\ currentMode = "normal") =>
     \A p \in Positions(checks) :
        RuleAt(p).name \notin Range(implicitRules) =>
          (~Chk(p).invoked <=> NormalSkipCondition(p))

\* C6 (amended): in normal mode the check of a rule of a field whose rule
\* list names no implicit rule is skipped if and only if the value is absent,
\* the empty string, or null with `nullable` in the rule list.
C6_NormalSkipIffNoImplicit ==
  (Running /\ currentMode = "normal") =>
     \A p \in Positions(checks) :
        NoImplicitRule(p) => (~Chk(p).invoked <=> NormalSkipCondition(p))

\* C6 witness: in normal mode `array` on null without `nullable` was not
\* skipped, its predicate ran and failed, and validate rejected with it.
C6_Witness ==
  /\ currentMode = "normal" /\ ~runAll /\ result.state = "rejected"
  /\ Len(rules) = 1 /\ Len(rules[1].validations) = 1
  /\ rules[1].validations[1].name = "array"
  /\ data.username = VNull
  /\ checks[1][1].invoked /\ checks[1][1].st = "rejected"
  /\ result.errors[1].validation = "array"

\* C7 (as claimed): in strict mode the check of a rule of a field without an
\* implicit rule is skipped if and only if the value is absent; on the empty
\* string the predicate is invoked.
C7_StrictRunsOnEmptyString ==
  (Running /\ currentMode = "strict") =>
     \A p \in Positions(checks) :
        NoImplicitRule(p) =>
          (~Chk(p).invoked <=> Get(data, FieldAt(p)).t = "undefined")

\* C8: the predicate of a rule whose name is in the implicit rule set is
\* invoked whatever the value of the field and whatever the mode.
C8_ImplicitNeverSkipped ==
  Running =>
     \A p \in Positions(checks) :
        RuleAt(p).name \in Range(implicitRules) => Chk(p).invoked

\* C8 witness: after extend('phone', f, msg) and extendImplicit('phone'),
\* validate({}, {username: 'phone'}) invoked f and rejected with its error.
C8_Witness ==
  /\ ~runAll /\ result.state = "rejected"
  /\ Len(rules) = 1 /\ Len(rules[1].validations) = 1
  /\ rules[1].validations[1].name = "phone"
  /\ data.username = VUndef
  /\ checks[1][1].invoked /\ checks[1][1].custom
  /\ result.errors = <<ValidationError("username", "phone", "Enter valid phone number")>>

\* C9 (as claimed), in the default mode: the predicate of a required-family
\* rule is invoked whatever the value of the field, under every spelling of
\* the rule name.
C9_RequiredFamilyAnySpelling ==
  (Running /\ currentMode = "normal") =>
     \A p \in Positions(checks) :
        snakeCase(RuleAt(p).name) \in Range(SeededImplicitRules) => Chk(p).invoked

\* C10: a check the engine decides to skip is fulfilled with 'validation
\* skipped', its predicate is not invoked, and no error of the result is
\* for its field and rule.
C10_SkippedIsSuccess ==
  Running =>
     \A p \in Positions(checks) :
        ~isValidatable(currentMode, implicitRules, data, FieldAt(p), ListAt(p)) =>
          /\ ~Chk(p).invoked
          /\ Chk(p).st = "fulfilled"
          /\ Chk(p).out = "validation skipped"
          /\ \A k \in 1..Len(result.errors) :
               ~(result.errors[k].field = FieldAt(p) /\
                 result.errors[k].validation = RuleAt(p).name)

\* C10 witness: the check of a registered rule whose predicate always rejects
\* was skipped on an absent field, and validate resolved.
C10_Witness ==
  /\ ~runAll /\ result.state = "resolved"
  /\ \E p \in Positions(checks) :
       /\ ~Chk(p).invoked
       /\ getValidationMethod(Validations, RuleAt(p).name) = "customReject"
       /\ Get(data, FieldAt(p)) = VUndef

\* the rejection carries an Error that no rule check produced as its failure
\* record: the error of a rule name that is not registered
ConfigErrors == {k \in 1..Len(result.errors) : result.errors[k].type = "Error"}

\* C11 (as claimed): when validate meets a rule name that is not registered on
\* a field that is not skipped and rejects for it, the rejection value is a
\* single error, not an array, and it mentions the rule name.
C11_ConfigErrorNotArray ==
  (~runAll /\ result.state = "rejected" /\ ConfigErrors # {}) =>
     /\ ~result.isArray
     /\ \E p \in Thrown : result.errors[1] = NotDefinedError(RuleAt(p).name)

\* C12 (as claimed): when validateAll meets a rule name that is not registered
\* on a field that is not skipped, the rejection is that single error: the
\* error is never in one array with the ValidationErrors of other rules.
C12_ConfigErrorNeverMixed ==
  (runAll /\ result.state = "rejected" /\ ConfigErrors # {}) =>
     \A k \in 1..Len(result.errors) : result.errors[k].type # "ValidationError"

\* C13 (as claimed): an exception raised inside a rule predicate is never
\* turned into a ValidationError {field, validation, message} and never
\* appears in the error list of validate or validateAll.
C13_FaultIsNoValidationError ==
  /\ \A p \in Positions(checks) :
       ~(Chk(p).error.type = "ValidationError" /\ Chk(p).error.message = Fault
         /\ Chk(p).st = "rejected")
  /\ \A k \in 1..Len(result.errors) : result.errors[k].message # Fault

\* the messages of the errors extend and is.extend throw
InvalidArguments ==
  {"Invalid arguments, extend expects a method to execute",
   "Invalid arguments, is.extends expects 2nd parameter as a function"}

\* C14: extend(name, handler, message) and is.extend(name, handler) called
\* with a handler that is not a function throw an 'Invalid arguments' error
\* and leave the rule registry, the default messages and the raw predicates
\* as they were.
C14_BadHandlerChangesNothing ==
  [][((\E name \in ExtendNames :
         extend(name, "not a function", "Enter valid phone number"))
      \/ (\E name \in RawNames : is_extend(name, "not a function")))
     => (exception' \in InvalidArguments
         /\ UNCHANGED <<Validations, validationMessages, is>>)]_vars

\* C14 witness: extend has thrown on a handler that is not a function, after
\* rules and raw predicates were registered, and no registry holds the handler.
C14_Witness ==
  /\ exception = "Invalid arguments, extend expects a method to execute"
  /\ "isPhone" \in DOMAIN Validations /\ "presence" \in DOMAIN is
  /\ \A key \in DOMAIN Validations : Validations[key] # "not a function"
  /\ \A key \in DOMAIN is : is[key] # "not a function"
  /\ DOMAIN validationMessages = {"is_phone"}

\* the arguments setMode is called with
ModeArguments == {"normal", "strict", "loose"}

C16_ImplicitRulesOnlyGrow ==
  [][/\ Len(implicitRules') >= Len(SeededImplicitRules)
     /\ SubSeq(implicitRules', 1, Len(SeededImplicitRules)) = SeededImplicitRules
     /\ Range(implicitRules) \subseteq Range(implicitRules')
     /\ \A name \in ImplicitNames :
          extendImplicit(name) => snakeCase(name) \in Range(implicitRules')
     /\ implicitRules' # implicitRules =>
          \E name \in ImplicitNames :
             extendImplicit(name) /\ implicitRules' = Append(implicitRules, snakeCase(name))]_vars

\* C16 witness: `phone` was added by extendImplicit and is still in the list
\* after extend, setMode and a validateAll run that rejected
C16_Witness ==
  /\ implicitRules = Append(SeededImplicitRules, "phone")
  /\ "phone" \in DOMAIN Validations /\ currentMode = "strict"
  /\ runAll /\ result.state = "rejected"

RECURSIVE JoinHyphen(_)
JoinHyphen(ws) ==
  IF Len(ws) = 1 THEN ws[1] ELSE ws[1] \o "-" \o JoinHyphen(Tail(ws))

\* a rule name written in snake_case, in camelCase and in hyphen-case
Spellings(name) ==
  {JoinSnake(Words(name)), camelCase(name), JoinHyphen(Words(name))}

\* C17 (as claimed): every rule of the registry, built in or registered
\* through extend under any spelling (its snake_case name included), is the
\* predicate the lookup reaches for each spelling of its name.
C17_EverySpellingReachesTheRule ==
  \A key \in DOMAIN Validations :
     \A written \in Spellings(key) :
        getValidationMethod(Validations, written) = Validations[key]

\* the run in flight was started with the wildcard path w in its rule set
WildcardRun(w) == Running /\ WildcardParts(w).prefix \in DOMAIN data

\* element number k (from 0) of the collection of w fails the rule
ElementFails(w, k, rule) ==
  LET value == Get(data, Concrete(w, k))
  IN \/ rule = "alpha" /\ value = VStr(<<"a", "@">>)
     \/ rule = "required" /\ value = VNull

\* C18: a rule on a wildcard path is applied to every element of the
\* collection: there is one entry per element, in index order, under the
\* concrete indexed path and with the rules of the wildcard path; an invoked
\* check fails exactly when its own element fails the rule, its error names
\* the concrete path of that element, and validateAll lists the errors in
\* index order.
C18_WildcardEveryElementInOrder ==
  \A w \in WildcardFields :
     WildcardRun(w) =>
       LET count == Len(data[WildcardParts(w).prefix].items)
       IN /\ Len(rules) = count /\ Len(checks) = count
          /\ \A k \in 1..count :
               /\ rules[k].field = Concrete(w, k - 1)
               /\ rules[k].validations = rules[1].validations
               /\ Len(checks[k]) = Len(rules[k].validations)
          /\ \A p \in Positions(checks) :
               /\ Chk(p).error.field = Concrete(w, p[1] - 1)
               /\ Chk(p).invoked =>
                    (Chk(p).out = "rejected" <=> ElementFails(w, p[1] - 1, RuleAt(p).name))
          /\ (runAll /\ result.state = "rejected") => result.errors = FailingErrors
          /\ (~runAll /\ result.state = "rejected") =>
               \E k \in 1..count :
                  /\ result.errors[1].field = Concrete(w, k - 1)
                  /\ ElementFails(w, k - 1, result.errors[1].validation)

\* C18 witness: validateAll({email: ['ab', 'a@', ...]}, {'email.*': 'alpha'})
\* has rejected, the first element passed and the second is reported as email.1
C18_Witness ==
  /\ WildcardRun("email.*") /\ runAll /\ result.state = "rejected"
  /\ Len(rules) >= 2
  /\ data["email.0"] = VStr(<<"a", "b">>) /\ data["email.1"] = VStr(<<"a", "@">>)
  /\ checks[1][1].st = "fulfilled" /\ checks[1][1].invoked
  /\ result.errors[1] = ValidationError("email.1", "alpha", "alpha validation failed on email.1")

\* the failing checks whose predicate rejected with the message it was given
FailingWithMessage ==
  {p \in Failing :
     Reason(getValidationMethod(Validations, RuleAt(p).name), RuleAt(p).args, "") = ""}

\* the text of a custom message: the string, or what the function returns
EntryText(entry) == IF entry = MessageCallback THEN CallbackReturn ELSE entry

\* C19: the message of a failing check is the custom message keyed
\* 'field.rule' if there is one, else the custom message keyed by the rule,
\* else the default message registered for the rule (the one extend
\* registered with `phone`), else '<rule> validation failed on <field>'; an
\* entry of one field and rule changes the message of no other field or rule.
\* A custom message that is a function stands for the text it returns.
C19_MessageByPriority ==
  Running =>
    \A p \in FailingWithMessage :
       FieldAt(p) \in FieldNames =>
         LET field == FieldAt(p)
             rule == RuleAt(p).name
             fieldRule == field \o "." \o rule
         IN Chk(p).error.message =
              IF fieldRule \in DOMAIN messages THEN EntryText(messages[fieldRule])
              ELSE IF rule \in DOMAIN messages THEN EntryText(messages[rule])
              ELSE IF rule = "phone" THEN "Enter valid phone number"
              ELSE rule \o " validation failed on " \o field

\* C19 witness: with the one custom message 'username.alpha', validateAll has
\* rejected with that message for alpha on username, the generic message for
\* alpha on age and the default message of phone on username.
C19_Witness ==
  /\ runAll /\ result.state = "rejected" /\ DOMAIN messages = {"username.alpha"}
  /\ result.errors =
       <<ValidationError("username", "alpha", "Letters only in the username"),
         ValidationError("username", "phone", "Enter valid phone number"),
         ValidationError("age", "alpha", "alpha validation failed on age")>>

\* C20: a custom message keyed by the wildcard path and the rule is the
\* message of the failing checks of every concrete path expanded from the
\* wildcard path, with '{{field}}' replaced by the concrete path.
C20_WildcardMessageForEveryElement ==
  \A w \in WildcardFields :
     WildcardRun(w) =>
       \A p \in FailingWithMessage :
          LET key == w \o "." \o RuleAt(p).name
          IN key \in DOMAIN messages =>
               Chk(p).error.message =
                 IF messages[key] = "{{field}} is not a valid email"
                 THEN Concrete(w, p[1] - 1) \o " is not a valid email"
                 ELSE messages[key]

\* C20 witness: validateAll({email: ['a@', 'a@', ...]}, {'email.*': 'alpha'},
\* {'email.*.alpha': '{{field}} is not a valid email'}) has rejected with the
\* message of each element under its own path.
C20_Witness ==
  /\ WildcardRun("email.*") /\ runAll /\ result.state = "rejected"
  /\ Len(result.errors) >= 2
  /\ result.errors[1] = ValidationError("email.0", "alpha", "email.0 is not a valid email")
  /\ result.errors[2] = ValidationError("email.1", "alpha", "email.1 is not a valid email")

\* the check p is a check of the rule `required`
RequiredCheck(p) == RuleAt(p).name = "required"

\* the value is absent, null, the empty string or an empty collection
EmptyValue(value) ==
  \/ value.t = "undefined" \/ value.t = "null"
  \/ (value.t = "string" /\ value.s = <<>>)
  \/ (value.t \in {"array", "object"} /\ value.items = <<>>)

\* C21: the predicate of `required` is always invoked; it rejects with the
\* resolved message exactly when the value of the field is absent, null, the
\* empty string or an empty collection and passes for every other value
\* (false and 0 included); validate with the one rule `required` on an absent
\* field rejects with [{field, validation: 'required', message}].
C21_RequiredRejectsEmpty ==
  /\ \A p \in Positions(checks) :
       RequiredCheck(p) =>
         /\ Chk(p).invoked
         /\ Chk(p).out = IF EmptyValue(Get(data, FieldAt(p)))
                         THEN "rejected" ELSE "validation passed"
         /\ Chk(p).error = ValidationError(FieldAt(p), "required",
                              make(messages, validationMessages, FieldAt(p), "required"))
  /\ (~runAll /\ Running /\ Len(rules) = 1
      /\ rules[1].validations = <<Rule("required")>>
      /\ Get(data, rules[1].field) = VUndef /\ NoPending(checks))
     => /\ result.state = "rejected"
        /\ result.errors = <<ValidationError(rules[1].field, "required",
                                make(messages, validationMessages, rules[1].field, "required"))>>

\* C21 witness: validate({}, {username: 'required'}) has rejected with the
\* error of required
C21_Witness ==
  /\ ~runAll /\ result.state = "rejected" /\ data.username = VUndef
  /\ rules = <<[field |-> "username", validations |-> <<Rule("required")>>]>>
  /\ result.errors =
       <<ValidationError("username", "required", "required validation failed on username")>>

\* the outcomes of a predicate that is called directly
Skipped == [state |-> "fulfilled", value |-> "validation skipped"]
Passed == [state |-> "fulfilled", value |-> "validation passed"]
RejectedWithMessage == [state |-> "rejected", value |-> DirectMessage]

\* the value of the field under validation, and of the field named by the
\* first argument, of the direct call
CallValue == Get(call.data, call.field)
CallOther == Get(call.data, call.args[1])

\* C22 (as claimed): requiredIf resolves as 'validation skipped' whenever the
\* conditional field is absent or null, whatever the field under validation
\* holds; when the conditional field holds a value it passes if the field
\* under validation is not empty and rejects with the message otherwise
\* (in the default mode).
C22_RequiredIfSkipsAbsentOrNull ==
  (call.method = "requiredIf" /\ call.mode = "normal") =>
     /\ CallOther.t \in {"undefined", "null"} => outcome = Skipped
     /\ (CallOther.t = "string" /\ CallOther.s # <<>>) =>
          outcome = IF EmptyValue(CallValue) THEN RejectedWithMessage ELSE Passed

\* the bound of a direct call of min or max, and the rule list it is given
CallBound == Number(call.args[1])
CallHasNumericRule == hasRule(call.validations, {"numeric", "integer"})
CallSkippable ==
  skippable(call.mode, CallValue, hasRule(call.validations, {"nullable"}))

CallSize ==
  IF CallHasNumericRule /\ Raw_numeric(CallValue) THEN Number(CallValue.s)
  ELSE IF CallValue.t = "array" THEN Len(CallValue.items)
  ELSE Len(String(CallValue))

RangeWithoutBounds ==
  {p \in Positions(checks) :
     RuleAt(p).name \in {"range", "between"} /\ MissingBounds(RuleAt(p).args)}

\* C24 (as claimed): a run that uses range / between without both bounds
\* rejects, whatever the field holds (absent and empty included), with the
\* fixed message 'min and max values are required for range validation', as
\* a configuration failure and not as a ValidationError in an array (in the
\* default mode).
C24_RangeBoundsAlwaysRequired ==
  (currentMode = "normal" /\ Running /\ NoPending(checks) /\ RangeWithoutBounds # {}) =>
     /\ result.state = "rejected"
     /\ ~result.isArray
     /\ \A k \in 1..Len(result.errors) :
          /\ result.errors[k].type = "Error"
          /\ result.errors[k].message = RangeBoundsRequired

\* the value of the counterpart field of a direct call of same, different
\* or confirmed
CallCounterpart ==
  Get(call.data,
      IF call.method = "confirmed" THEN call.field \o "_confirmation" ELSE call.args[1])

\* C25 (as claimed): same, different and confirmed resolve as skipped, without
\* failing, when the counterpart field is absent.
C25_AbsentCounterpartSkips ==
  (call.method \in {"same", "different", "confirmed"} /\ CallCounterpart.t = "undefined") =>
     outcome = Skipped

\* C25 (amended): same and different resolve as skipped when the counterpart
\* field is absent; with a counterpart that holds a value and a field that is
\* not skipped, same passes iff the two values are equal and different passes
\* iff they are not, and each rejects with the message otherwise. confirmed
\* compares with '<field>_confirmation' and skips only when the field itself
\* is skipped: with the confirmation field absent it rejects with the
\* message, and otherwise it passes iff the two values are equal.
C25_CounterpartCompared ==
  /\ (call.method \in {"same", "different"} /\ CallCounterpart.t = "undefined") =>
       outcome = Skipped
  /\ (call.method \in {"same", "different"} /\ ~Falsy(CallCounterpart) /\ ~CallSkippable) =>
       outcome = IF (CallValue = CallCounterpart) <=> (call.method = "same")
                 THEN Passed ELSE RejectedWithMessage
  /\ call.method = "confirmed" =>
       outcome = IF CallSkippable THEN Skipped
                 ELSE IF CallCounterpart.t = "undefined" THEN RejectedWithMessage
                 ELSE IF CallValue = CallCounterpart THEN Passed
                 ELSE RejectedWithMessage

\* confirmed on a password with no password_confirmation has rejected
C25_Witness ==
  /\ call.method = "confirmed"
  /\ CallValue = VStr(<<"a", "b">>)
  /\ CallCounterpart.t = "undefined"
  /\ outcome = RejectedWithMessage

\* the check at a position after the step
ChkNext(p) == checks'[p[1]][p[2]]

\* C26: within one validate or validateAll run every (field, rule) pair goes
\* from pending to exactly one of skipped, passed or failed and stays there:
\* a step of the run adds or removes no check, never changes what the
\* predicate of a check returned nor whether it was invoked, never changes a
\* check that is not pending, and takes a pending check only to fulfilled
\* (skipped or passed) or to rejected (failed), as its one evaluation said.
C26_OneShotChecks ==
  [][(Running /\ Running') =>
       /\ Positions(checks') = Positions(checks)
       /\ \A p \in Positions(checks) :
            /\ ChkNext(p).invoked = Chk(p).invoked
            /\ ChkNext(p).out = Chk(p).out
            /\ ChkNext(p).error = Chk(p).error
            /\ Chk(p).st # "pending" => ChkNext(p).st = Chk(p).st
            /\ ChkNext(p).st = "fulfilled" =>
                 Chk(p).out \in {"validation skipped", "validation passed"}
            /\ ChkNext(p).st = "rejected" => Chk(p).out \in {"rejected", "thrown"}
            /\ ~Chk(p).invoked =>
                 (Chk(p).st = "fulfilled" /\ Chk(p).out = "validation skipped")]_vars

\* a validateAll run in which one check has failed, one was skipped without
\* its predicate being invoked, and one is still pending
C26_Witness ==
  /\ runAll /\ result.state = "pending"
  /\ \E p \in Positions(checks) : Chk(p).st = "rejected" /\ Chk(p).invoked
  /\ \E p \in Positions(checks) : Chk(p).st = "fulfilled" /\ ~Chk(p).invoked
  /\ \E p \in Positions(checks) : Chk(p).st = "pending"

\* C27: validate cancels nothing. From the call on, the predicate of every
\* rule of every field whose check is not skipped has been invoked, whatever
\* an earlier rule or field did; and once validate has rejected, the checks
\* that settle afterwards leave the rejection as it is.
C27_NothingCancelled ==
  [][(~runAll' /\ Running') =>
       /\ \A p \in Positions(checks') :
            ChkNext(p).invoked <=>
              isValidatable(currentMode', implicitRules', data', rules'[p[1]].field,
                            rules'[p[1]].validations)
       /\ (~runAll /\ result.state = "rejected") => result' = result]_vars

\* validate has rejected with the error of an earlier check while the
\* predicate of a later rule, invoked all the same, has failed as well
C27_Witness ==
  /\ ~runAll /\ result.state = "rejected"
  /\ \E p, q \in Positions(checks) :
       /\ Before(p, q)
       /\ Chk(p).st = "rejected" /\ result.errors = <<Chk(p).error>>
       /\ Chk(q).invoked /\ Chk(q).st = "rejected" /\ Chk(q).out = "rejected"

\* C28: skipping by the engine is decided per field: when the rule list of a
\* field names at least one implicit rule, the predicate of every rule of
\* that field is invoked, the rules that are not implicit included, whatever
\* the field holds (absent, empty and null included) and in every mode; and
\* the checks of one field are always either all invoked or all skipped.
C28_SkipDecidedPerField ==
  Running =>
     /\ \A p \in Positions(checks) : ~NoImplicitRule(p) => Chk(p).invoked
     /\ \A p, q \in Positions(checks) :
          p[1] = q[1] => (Chk(p).invoked <=> Chk(q).invoked)

\* `alpha` next to `required` on a field that is absent: the predicate of
\* alpha, which is not implicit and comes first, has been invoked
C28_Witness ==
  /\ Running
  /\ Len(rules) = 1 /\ Len(rules[1].validations) = 2
  /\ rules[1].validations[1].name = "alpha"
  /\ rules[1].validations[2].name = "required"
  /\ Get(data, rules[1].field) = VUndef
  /\ checks[1][1].invoked /\ checks[1][1].out = "validation skipped"
  /\ checks[1][2].invoked /\ checks[1][2].out = "rejected"

\* the checks of a rule name that is not registered
Unregistered ==
  {p \in Positions(checks) : getValidationMethod(Validations, RuleAt(p).name) = "throws"}

\* the checks the engine decides to skip
EngineSkipped ==
  {p \in Positions(checks) :
     ~isValidatable(currentMode, implicitRules, data, FieldAt(p), ListAt(p))}

CustomEntry(p) ==
  LET key == WildcardForm(FieldAt(p)) \o "." \o RuleAt(p).name
  IN IF key \in DOMAIN messages THEN messages[key]
     ELSE IF RuleAt(p).name \in DOMAIN messages THEN messages[RuleAt(p).name]
     ELSE ""

\* C30: the message is made once per (field, rule) pair, before the skip
\* decision: in every run a custom message given as a function has been
\* called exactly once for each check it is the message of, the checks that
\* are skipped and the checks that pass included, and never for another
\* check; a failing check carries the text it returned.
C30_MessageMadeEagerly ==
  Running =>
     \A p \in Positions(checks) :
        /\ Chk(p).called = IF CustomEntry(p) = MessageCallback THEN 1 ELSE 0
        /\ (CustomEntry(p) = MessageCallback /\ Chk(p).out = "rejected") =>
             Chk(p).error.message = CallbackReturn

\* a run such as validate({}, {username: 'alpha'}, {alpha: function}): the
\* function was called for a check that was skipped
C30_Witness ==
  /\ Running
  /\ \E p \in Positions(checks) :
       /\ CustomEntry(p) = MessageCallback
       /\ Chk(p).called = 1
       /\ ~Chk(p).invoked /\ Chk(p).out = "validation skipped"
       /\ Chk(p).st = "fulfilled"

====
